---- MODULE Spec2Model ----
(***************************************************************************)
(* A model of tibprice: the shared price buffer (shared_buffer.rs), the    *)
(* price list logic (pricing.rs) and the retrying Tibber client            *)
(* (tibberapi.rs).                                                         *)
(*                                                                         *)
(* The specifications of the module:                                       *)
(*   Spec       SharedPricePoints used by reader threads and one installer *)
(*              thread (mutex + condition variable), LiveSpec adds the     *)
(*              fairness of the scheduler and of the wait timeout;         *)
(*   DaemonSpec the background worker's cycle (try_update, set_new_prices) *)
(*              against the shared buffer;                                 *)
(*   FetchSpec  TibberClient::fetch_price_info, the retry loop             *)
(*              (FetchLiveSpec: with the fairness of its thread);          *)
(*   PricingSpec one call of a function of PricePoints on any price list,  *)
(*              instant, update time and time zone; RecencySpec the same   *)
(*              for has_more_recent_prices on any two price lists,         *)
(*              MergeSpec for fetch_from_tibber on any reply,              *)
(*              CoverageSpec for has_prices_for_date on any date,          *)
(*              AgreeSpec for the fetch gate and the base sleep together;  *)
(*   UpdateSpec try_update from both of its callers: the worker of the     *)
(*              daemon and the price command (main.rs);                    *)
(*   MainSpec   start_daemon: the worker and the main thread, which reads  *)
(*              the shared buffer (startup wait and main loop);            *)
(*   PersistSpec one to_file, step by step, and a from_file of the same    *)
(*              path at any moment; LoadSpec from_file of any file.        *)
(***************************************************************************)
EXTENDS Integers, Sequences, FiniteSets, TLC

\* ---------------------------------------------------------------- bounds
\* starts_at instants are 1..MaxTime
MaxTime == 2
\* a price list holds at most MaxLen points
MaxLen == 2
\* the price of a point (total) is one of 1..MaxTotal
MaxTotal == 1
\* reader threads of the shared buffer
NumReaders == 2
\* the daemon's clock and the starts_at of fetched points run over 0..MaxClock
MaxClock == 6
\* the configured max_retries is one of 0..MaxRetries
MaxRetries == 3
\* the configured delays (ms) are 1..MaxDelayMs
MaxDelayMs == 3

VARIABLES
    \* SharedPricePoints (shared_buffer.rs:14-19)
    price_points,   \* the PricePoints inside the Mutex
    lock,           \* the set of threads holding the Mutex (empty: free)
    \* a reader thread inside clone_prices / wait_for_new_prices
    pc,             \* pc[r]: the reader's position
    after,          \* after[r]: the baseline argument of wait_for_new_prices
    wake,           \* wake[r]: why wait_timeout returned
    result,         \* result[r]: the value wait_for_new_prices returned
    copy,           \* copy[r]: the value clone_prices returned
    seen_newer,     \* history: a list newer than after[r] was installed during the call
    \* the thread inside set_new_prices
    wpc,            \* its position
    cand,           \* new_prices, the candidate
    ret,            \* the value set_new_prices returned
    \* the background worker (shared_buffer.rs:119-164) and its environment
    dpc,            \* the worker's position in its loop
    price_list,     \* the worker's local PricePoints
    upd,            \* what try_update returned: "none", "ok_false", "ok_true", "err"
    file,           \* the content of prices_file (NoFile: it does not exist)
    now,            \* the clock, Utc::now()
    update_time,    \* the configured time of day of the daily update
    tz,             \* the offset of local time from UTC
    command,        \* cli.command: "daemon" or "price" (main.rs:278-291)
    fetched,        \* try_update's local new_prices: what fetch_from_tibber returned
    wrote,          \* what to_file returned in this call of try_update ("none": not called)
    \* TibberClient::fetch_price_info (tibberapi.rs:225-260)
    fpc,            \* position in the retry loop
    max_retries,    \* self.max_retries
    initial_delay_ms, \* self.initial_delay_ms
    max_delay_ms,   \* self.max_delay_ms
    attempt,        \* the local attempt
    delay,          \* the local delay
    calls,          \* how often fetch_price_info_no_retry was called (the server's count)
    slept,          \* the sleeps taken, in order (ms)
    served,         \* what the source answered to each call, in order
    reported,       \* the attempt count in the terminal error's message
    \* one call of a function of PricePoints (pricing.rs) on price_list at now
    called,         \* the function that was called ("none": not yet)
    returned,       \* what it returned
    price_info,     \* the PriceInfo that fetch_price_info returned to fetch_from_tibber
    \* the file system under to_file and from_file (pricing.rs:322-364)
    tmp,            \* the temporary file, temp_path
    handle,         \* the file that from_file has opened
    prev,           \* history: the content of prices_file when to_file was called
    spc,            \* the position of the thread inside to_file
    \* the main thread of start_daemon (main.rs:163-250); it is reader 1
    mpc,            \* its position ("off": start_daemon is not running)
    prices          \* its local prices

cacheVars == <<price_points, lock>>
readerVars == <<pc, after, wake, result, copy, seen_newer>>
setterVars == <<wpc, cand, ret>>
daemonVars == <<dpc, price_list, upd, file, now, update_time, tz, command, fetched, wrote>>
fetchVars == <<fpc, max_retries, initial_delay_ms, max_delay_ms, attempt, delay, calls,
               slept, served, reported>>
persistVars == <<tmp, handle, prev, spc>>
callVars == <<called, returned, price_info, tmp, handle, prev, spc>>
mainVars == <<mpc, prices>>
vars == <<price_points, lock, pc, after, wake, result, copy, seen_newer, wpc, cand, ret,
          dpc, price_list, upd, file, now, update_time, tz, command, fetched, wrote,
          fpc, max_retries, initial_delay_ms, max_delay_ms, attempt, delay, calls,
          slept, served, reported, called, returned, price_info, tmp, handle, prev, spc,
          mpc, prices>>

\* ------------------------------------------------------------ data model
Times == 1..MaxTime
Totals == 1..MaxTotal

\* tibberapi.rs PricePoint { total, starts_at }
PricePoint == [total : Totals, starts_at : Times]

IsSorted(s) == \A i \in 1..(Len(s) - 1) : s[i].starts_at <= s[i + 1].starts_at

SeqsUpTo(S, n) == UNION {[1..k -> S] : k \in 0..n}

\* the price lists the program can hold: from_file and fetch_from_tibber sort
AllSeries == {s \in SeqsUpTo(PricePoint, MaxLen) : IsSorted(s)}

\* Option<DateTime<Utc>>: None is <<>>, Some(t) is <<t>>
None == <<>>
Some(t) == <<t>>

\* Option's derived ordering: None < Some(_), Some(a) < Some(b) iff a < b
OptLt(a, b) ==
    IF a = None THEN b # None
    ELSE b # None /\ a[1] < b[1]

OptGt(a, b) == OptLt(b, a)

latest_price_date(s) == IF Len(s) = 0 THEN None ELSE Some(s[Len(s)].starts_at)

MutSwapped(self, other) == OptLt(latest_price_date(self), latest_price_date(other))

MutNotOlder(self, other) == ~OptLt(latest_price_date(self), latest_price_date(other))

MutEmptyIsLatest(self, other) ==
    LET mine == latest_price_date(self)
        theirs == latest_price_date(other)
    IN  IF mine = None THEN theirs # None
        ELSE theirs # None /\ theirs[1] < mine[1]

has_more_recent_prices(self, other) ==
    OptLt(latest_price_date(other), latest_price_date(self))

\* ------------------------------------------------- pricing.rs, on a clock
\* a local day has DayLen instants; update_time and the time of day are in 0..DayLen-1
DayLen == 3

ClockTimes == 1..MaxClock

\* the points the provider can return
FetchedPoint == [total : Totals, starts_at : ClockTimes]

\* the sorted price lists over the clock's instants
ClockSeries == {s \in SeqsUpTo(FetchedPoint, MaxLen) : IsSorted(s)}

Min(a, b) == IF a < b THEN a ELSE b

\* Vec::sort_by(|a, b| a.starts_at.cmp(&b.starts_at)): a stable sort
RECURSIVE InsertByStartsAt(_, _)
InsertByStartsAt(p, s) ==
    IF s = <<>> THEN <<p>>
    ELSE IF p.starts_at < Head(s).starts_at THEN <<p>> \o s
    ELSE <<Head(s)>> \o InsertByStartsAt(p, Tail(s))

RECURSIVE sort_by_starts_at(_)
sort_by_starts_at(s) ==
    IF s = <<>> THEN <<>>
    ELSE InsertByStartsAt(s[Len(s)], sort_by_starts_at(SubSeq(s, 1, Len(s) - 1)))

\* PricePoints::fetch_from_tibber, given the PriceInfo that fetch_price_info returned
MutTomorrowFirst(today, tomorrow) == sort_by_starts_at(tomorrow \o today)

fetch_from_tibber(today, tomorrow) == sort_by_starts_at(today \o tomorrow)

MutAtDateCounts(s, date) ==
    /\ \E i \in 1..Len(s) : s[i].starts_at <= date
    /\ \E i \in 1..Len(s) : s[i].starts_at >= date

has_prices_for_date(s, date) ==
    /\ \E i \in 1..Len(s) : s[i].starts_at < date
    /\ \E i \in 1..Len(s) : s[i].starts_at > date

\* n is Utc::now()
has_today_prices(s, n) == has_prices_for_date(s, n)

\* Local::now() + Duration::days(1), as an instant
has_tomorrows_prices(s, n) == has_prices_for_date(s, n + DayLen)

\* the local time zone: local time is UTC + before up to the instant at, and
\* UTC + after from then on (a change of the clocks); offsets are in 0..DayLen-1
Zone(at, b, a) == [at |-> at, before |-> b, after |-> a]

\* a zone without a change of the clocks
FixedZone(o) == Zone(0, o, o)

Offset(z, t) == IF t < z.at THEN z.before ELSE z.after

\* the local wall-clock reading of the instant n (Local::now() when n is now)
LocalNow(n, z) == n + Offset(z, n)

TimeOfDay(l) == l % DayLen

DateStart(l) == l - (l % DayLen)

\* NaiveDateTime::and_local_timezone(Local): the instants that read l on the
\* local clock: none (a skipped reading), one, or several (a repeated reading)
and_local_timezone(l, z) == {u \in (l - (DayLen - 1))..l : u + Offset(z, u) = l}

\* LocalResult::unwrap returns the single instant and panics otherwise
IsSingle(S) == Cardinality(S) = 1
unwrap(S) == CHOOSE u \in S : TRUE

MutIgnoresUpdateTime(s, ut, n, z) ==
    IF ~has_today_prices(s, n) THEN TRUE
    ELSE IF ~has_tomorrows_prices(s, n) THEN TRUE
    ELSE FALSE

should_fetch_prices(s, ut, n, z) ==
    IF ~has_today_prices(s, n) THEN TRUE
    ELSE IF ~has_tomorrows_prices(s, n) /\ TimeOfDay(LocalNow(n, z)) >= ut THEN TRUE
    ELSE FALSE

\* instants are finer than a millisecond: TicksPerMs of them make one
TicksPerMs == 2

\* chrono::Duration::num_milliseconds: whole milliseconds, rounded toward zero
num_milliseconds(d) == IF d >= 0 THEN d \div TicksPerMs ELSE 0 - ((0 - d) \div TicksPerMs)

\* i64 milliseconds "as u64"; U64 stands for 2^64, which TLC's integers cannot hold
U64 == 2 ^ 20
AsU64(x) == IF x >= 0 THEN x ELSE x + U64

\* what a call gives: a Duration in milliseconds, or the panic of an unwrap
Millis(x) == [panic |-> FALSE, ms |-> x]
Panicked == [panic |-> TRUE, ms |-> 0]

MutPastCheckInverted(s, ut, n, z) ==
    LET now_local == LocalNow(n, z)
        date_today == DateStart(now_local)
        date_tomorrow == DateStart(LocalNow(n + DayLen, z))
        today_update_local == and_local_timezone(date_today + ut, z)
        tomorrow_update_local == and_local_timezone(date_tomorrow + ut, z)
    IN  IF ~has_today_prices(s, n) THEN Millis(0)
        ELSE IF ~IsSingle(today_update_local) \/ ~IsSingle(tomorrow_update_local)
             THEN Panicked
        ELSE IF has_tomorrows_prices(s, n)
             THEN Millis(AsU64(num_milliseconds(unwrap(tomorrow_update_local) - n)))
        ELSE IF n < unwrap(today_update_local) THEN Millis(0)
        ELSE Millis(AsU64(num_milliseconds(unwrap(today_update_local) - n)))

duration_to_new_price_list(s, ut, n, z) ==
    LET now_local == LocalNow(n, z)
        date_today == DateStart(now_local)
        date_tomorrow == DateStart(LocalNow(n + DayLen, z))
        today_update_local == and_local_timezone(date_today + ut, z)
        tomorrow_update_local == and_local_timezone(date_tomorrow + ut, z)
    IN  IF ~has_today_prices(s, n) THEN Millis(0)
        ELSE IF ~IsSingle(today_update_local) \/ ~IsSingle(tomorrow_update_local)
             THEN Panicked
        ELSE IF has_tomorrows_prices(s, n)
             THEN Millis(AsU64(num_milliseconds(unwrap(tomorrow_update_local) - n)))
        ELSE IF n > unwrap(today_update_local) THEN Millis(0)
        ELSE Millis(AsU64(num_milliseconds(unwrap(today_update_local) - n)))

MutLastPointIsActive(s, n) ==
    IF Len(s) = 0 THEN None
    ELSE LET found == {i \in 1..Len(s) :
                         /\ s[i].starts_at <= n
                         /\ (i < Len(s) => n < s[i + 1].starts_at)}
         IN  IF found = {} THEN None
             ELSE Some(s[CHOOSE i \in found : \A j \in found : i <= j])

\* the active price at the instant n: the first point with a successor that
\* starts at or before n while the successor starts after n
get_active_price(s, n) ==
    IF Len(s) = 0 THEN None
    ELSE LET found == {i \in 1..(Len(s) - 1) :
                         s[i].starts_at <= n /\ n < s[i + 1].starts_at}
         IN  IF found = {} THEN None
             ELSE Some(s[CHOOSE i \in found : \A j \in found : i <= j])

MutNoRoundingUp(s, n) ==
    IF Len(s) = 0 THEN None
    ELSE LET later == {i \in 1..Len(s) : s[i].starts_at > n}
         IN  IF later = {} THEN None
             ELSE LET first == CHOOSE i \in later : \A j \in later : i <= j
                  IN  Some(AsU64(num_milliseconds(s[first].starts_at - n)))

\* milliseconds until the first point, in list order, that starts after n
duration_to_next_active_price(s, n) ==
    IF Len(s) = 0 THEN None
    ELSE LET later == {i \in 1..Len(s) : s[i].starts_at > n}
         IN  IF later = {} THEN None
             ELSE LET first == CHOOSE i \in later : \A j \in later : i <= j
                  IN  Some(AsU64(num_milliseconds(s[first].starts_at - n)) + 1)

\* ------------------------------------------------ to_file and from_file
\* chrono's serde form of a DateTime<Utc>: the calendar date and the time of
\* day, and its parser
to_rfc3339(t) == [date |-> t \div DayLen, time |-> t % DayLen]
MutDropsDate(x) == x.time

parse_rfc3339(x) == x.date * DayLen + x.time

\* tibberapi.rs:71-76, the derived Serialize and Deserialize of PricePoint
serialize(p) == [total |-> p.total, startsAt |-> to_rfc3339(p.starts_at)]
deserialize(o) == [total |-> o.total, starts_at |-> parse_rfc3339(o.startsAt)]

\* the text of a JSON array as far as it is written: the opening bracket, the
\* objects, the closing bracket
Text(o, items, c) == [open |-> o, items |-> items, close |-> c]
EmptyText == Text(FALSE, <<>>, FALSE)

\* serde_json::to_writer_pretty(file, self), the whole text
to_writer_pretty(s) == Text(TRUE, [i \in 1..Len(s) |-> serialize(s[i])], TRUE)

\* a Result<PricePoints>
Ok(s) == [err |-> FALSE, prices |-> s]
Err == [err |-> TRUE, prices |-> <<>>]

\* serde_json::from_reader: a text that is not a whole array is an error
from_reader(text) ==
    IF text.open /\ text.close
    THEN Ok([i \in 1..Len(text.items) |-> deserialize(text.items[i])])
    ELSE Err

\* prices_file: it exists or not, and what it holds
NoFile == [exists |-> FALSE, content |-> EmptyText]
FileOf(text) == [exists |-> TRUE, content |-> text]
FileWith(s) == FileOf(to_writer_pretty(s))

\* from_file has no file open; a file it has opened keeps its content, because
\* prices_file is never written in place: a rename replaces it
NoHandle == [state |-> "none", content |-> EmptyText]
Opened(f) == [state |-> "open", content |-> f.content]

\* try_update has not fetched; fetch_price_info has not returned
NoPrices == [kind |-> "none", prices |-> <<>>]
\* try_update has returned: new_prices is gone, how the fetch ended is kept
Dropped(n) == [kind |-> n.kind, prices |-> <<>>]
NoPriceInfo == [kind |-> "none", today |-> <<>>, tomorrow |-> <<>>]

MutParseErrorIsEmpty(f) ==
    IF ~f.exists THEN Ok(<<>>)
    ELSE LET loaded_price_points == from_reader(f.content)
         IN  IF loaded_price_points.err THEN Ok(<<>>)
             ELSE Ok(sort_by_starts_at(loaded_price_points.prices))

\* PricePoints::from_file, lines 343-364, of the file as it is
MutLoadsUnsorted(f) ==
    IF ~f.exists THEN Ok(<<>>)
    ELSE from_reader(f.content)

from_file(f) ==
    IF ~f.exists THEN Ok(<<>>)
    ELSE LET loaded_price_points == from_reader(f.content)
         IN  IF loaded_price_points.err THEN Err
             ELSE Ok(sort_by_starts_at(loaded_price_points.prices))

\* ------------------------------------------------------------- threads
Readers == 1..NumReaders
Setter == NumReaders + 1

Idle == {"idle", "w_done", "c_done"}

MutEntryNotOlder(r) == ~OptLt(latest_price_date(price_points), Some(after[r]))

\* the first check of wait_for_new_prices, under the lock
HasNewAtEntry(r) == OptGt(latest_price_date(price_points), Some(after[r]))

MutRecheckTrustsWake(r) == wake[r] = "notify"

\* the check after wait_timeout has returned, under the lock
HasNewAfterWake(r) == OptGt(latest_price_date(price_points), Some(after[r]))

\* ---------------------------------------------- wait_for_new_prices(after, timeout)
WaitCall(r, a) ==
    /\ pc[r] \in Idle
    /\ pc' = [pc EXCEPT ![r] = "w_lock"]
    /\ after' = [after EXCEPT ![r] = a]
    /\ wake' = [wake EXCEPT ![r] = "none"]
    /\ result' = [result EXCEPT ![r] = FALSE]
    /\ copy' = [copy EXCEPT ![r] = <<>>]
    /\ seen_newer' = [seen_newer EXCEPT ![r] = FALSE]
    /\ UNCHANGED <<mainVars, daemonVars, fetchVars, callVars, cacheVars, setterVars>>

WaitLock(r) ==
    /\ pc[r] = "w_lock"
    /\ lock = {}
    /\ lock' = {r}
    /\ pc' = [pc EXCEPT ![r] = "w_check"]
    /\ UNCHANGED <<mainVars, daemonVars, fetchVars, callVars,
                   price_points, after, wake, result, copy, seen_newer, setterVars>>

\* lines 52-69: return true at once, or release the lock and block in wait_timeout
WaitCheck(r) ==
    /\ pc[r] = "w_check"
    /\ lock' = lock \ {r}
    /\ IF HasNewAtEntry(r)
       THEN /\ result' = [result EXCEPT ![r] = TRUE]
            /\ pc' = [pc EXCEPT ![r] = "w_done"]
       ELSE /\ result' = result
            /\ pc' = [pc EXCEPT ![r] = "w_waiting"]
    /\ UNCHANGED <<mainVars, daemonVars, fetchVars, callVars,
                   price_points, after, wake, copy, seen_newer, setterVars>>

MutNeverTimesOut(r) == FALSE

\* wait_timeout: the timeout elapses
WaitTimesOut(r) ==
    /\ pc[r] = "w_waiting"
    /\ pc' = [pc EXCEPT ![r] = "w_woken"]
    /\ wake' = [wake EXCEPT ![r] = "timeout"]
    /\ UNCHANGED <<mainVars, daemonVars, fetchVars, callVars,
                   cacheVars, after, result, copy, seen_newer, setterVars>>

\* wait_timeout: a spurious wake-up of the condition variable
WaitSpurious(r) ==
    /\ pc[r] = "w_waiting"
    /\ pc' = [pc EXCEPT ![r] = "w_woken"]
    /\ wake' = [wake EXCEPT ![r] = "spurious"]
    /\ UNCHANGED <<mainVars, daemonVars, fetchVars, callVars,
                   cacheVars, after, result, copy, seen_newer, setterVars>>

\* wait_timeout: the lock is reacquired before it returns
WaitReacquire(r) ==
    /\ pc[r] = "w_woken"
    /\ lock = {}
    /\ lock' = {r}
    /\ pc' = [pc EXCEPT ![r] = "w_recheck"]
    /\ UNCHANGED <<mainVars, daemonVars, fetchVars, callVars,
                   price_points, after, wake, result, copy, seen_newer, setterVars>>

\* lines 81-88
WaitRecheck(r) ==
    /\ pc[r] = "w_recheck"
    /\ result' = [result EXCEPT ![r] = HasNewAfterWake(r)]
    /\ pc' = [pc EXCEPT ![r] = "w_done"]
    /\ lock' = lock \ {r}
    /\ UNCHANGED <<mainVars, daemonVars, fetchVars, callVars,
                   price_points, after, wake, copy, seen_newer, setterVars>>

\* ------------------------------------------------------------ clone_prices()
CloneCall(r) ==
    /\ pc[r] \in Idle
    /\ pc' = [pc EXCEPT ![r] = "c_lock"]
    /\ wake' = [wake EXCEPT ![r] = "none"]
    /\ result' = [result EXCEPT ![r] = FALSE]
    /\ copy' = [copy EXCEPT ![r] = <<>>]
    /\ seen_newer' = [seen_newer EXCEPT ![r] = FALSE]
    /\ UNCHANGED <<mainVars, daemonVars, fetchVars, callVars, cacheVars, after, setterVars>>

CloneLock(r) ==
    /\ pc[r] = "c_lock"
    /\ lock = {}
    /\ lock' = {r}
    /\ pc' = [pc EXCEPT ![r] = "c_copy"]
    /\ UNCHANGED <<mainVars, daemonVars, fetchVars, callVars,
                   price_points, after, wake, result, copy, seen_newer, setterVars>>

MutClonedPartial(s) == IF Len(s) > 1 THEN SubSeq(s, 1, Len(s) - 1) ELSE s

\* prices.clone()
Cloned(s) == s

CloneCopy(r) ==
    /\ pc[r] = "c_copy"
    /\ copy' = [copy EXCEPT ![r] = Cloned(price_points)]
    /\ pc' = [pc EXCEPT ![r] = "c_done"]
    /\ lock' = lock \ {r}
    /\ UNCHANGED <<mainVars, daemonVars, fetchVars, callVars,
                   price_points, after, wake, result, seen_newer, setterVars>>

\* --------------------------------------------------- set_new_prices(new_prices)
SetCall(c) ==
    /\ wpc \in {"idle", "s_done"}
    /\ wpc' = "s_lock"
    /\ cand' = c
    /\ ret' = FALSE
    /\ UNCHANGED <<mainVars, daemonVars, fetchVars, callVars, cacheVars, readerVars>>

SetLock ==
    /\ wpc = "s_lock"
    /\ lock = {}
    /\ lock' = {Setter}
    /\ wpc' = "s_crit"
    /\ UNCHANGED <<mainVars, daemonVars, fetchVars, callVars, price_points, readerVars, cand, ret>>

MutNotifyOne(p) ==
    IF \E r \in Readers : p[r] = "w_waiting"
    THEN LET one == CHOOSE r \in Readers : p[r] = "w_waiting"
         IN  [r \in Readers |-> IF r = one THEN "w_woken" ELSE p[r]]
    ELSE p

\* Condvar::notify_all: every thread blocked in wait_timeout is woken
notify_all(p) == [r \in Readers |-> IF p[r] = "w_waiting" THEN "w_woken" ELSE p[r]]

\* the readers inside wait_for_new_prices that have not yet decided their result
InWait(r) == pc[r] \in {"w_lock", "w_check", "w_waiting", "w_woken", "w_recheck"}

MutKeepsLock ==
    /\ wpc = "s_crit"
    /\ wpc' = "s_done"
    /\ IF has_more_recent_prices(cand, price_points)
       THEN price_points' = cand /\ ret' = TRUE
       ELSE price_points' = price_points /\ ret' = FALSE
    /\ UNCHANGED <<mainVars, daemonVars, fetchVars, callVars, lock, readerVars, cand>>

\* lines 99-108
SetCrit ==
    /\ wpc = "s_crit"
    /\ lock' = lock \ {Setter}
    /\ wpc' = "s_done"
    /\ IF has_more_recent_prices(cand, price_points)
       THEN /\ price_points' = cand
            /\ pc' = notify_all(pc)
            /\ wake' = [r \in Readers |->
                          IF pc[r] = "w_waiting" /\ pc'[r] = "w_woken"
                          THEN "notify" ELSE wake[r]]
            /\ seen_newer' = [r \in Readers |->
                          seen_newer[r] \/
                          (InWait(r) /\ Len(cand) > 0
                             /\ cand[Len(cand)].starts_at > after[r])]
            /\ ret' = TRUE
       ELSE /\ ret' = FALSE
            /\ UNCHANGED <<price_points, pc, wake, seen_newer>>
    /\ UNCHANGED <<mainVars, daemonVars, fetchVars, callVars, after, result, copy, cand>>

\* ------------------------------------------------------------ specification
CacheInit ==
    /\ lock = {}
    /\ pc = [r \in Readers |-> "idle"]
    /\ after = [r \in Readers |-> 1]
    /\ wake = [r \in Readers |-> "none"]
    /\ result = [r \in Readers |-> FALSE]
    /\ copy = [r \in Readers |-> <<>>]
    /\ seen_newer = [r \in Readers |-> FALSE]
    /\ wpc = "idle"
    /\ cand = <<>>
    /\ ret = FALSE

\* start_daemon is not running
NoMain ==
    /\ mpc = "off"
    /\ prices = <<>>

\* no background worker is running
NoDaemon ==
    /\ dpc = "off"
    /\ price_list = <<>>
    /\ upd = "none"
    /\ file = NoFile
    /\ now = 0
    /\ update_time = 0
    /\ tz = FixedZone(0)
    /\ command = "none"
    /\ fetched = NoPrices
    /\ wrote = "none"

\* to_file and from_file are not running
NoPersist ==
    /\ price_info = NoPriceInfo
    /\ tmp = NoFile
    /\ handle = NoHandle
    /\ prev = NoFile
    /\ spc = "off"

\* no function of PricePoints is being called on its own
NoCall ==
    /\ called = "off"
    /\ returned = <<>>
    /\ NoPersist

\* no fetch is running
NoFetch ==
    /\ fpc = "off"
    /\ max_retries = 0
    /\ initial_delay_ms = 1
    /\ max_delay_ms = 1
    /\ attempt = 0
    /\ delay = 0
    /\ calls = 0
    /\ slept = <<>>
    /\ served = <<>>
    /\ reported = 0

\* SharedPricePoints::new(initial_prices)
Init ==
    /\ price_points \in AllSeries
    /\ CacheInit
    /\ NoMain
    /\ NoDaemon
    /\ NoFetch
    /\ NoCall

ReaderStep(r) ==
    \/ \E a \in Times : WaitCall(r, a)
    \/ WaitLock(r)
    \/ WaitCheck(r)
    \/ WaitTimesOut(r)
    \/ WaitSpurious(r)
    \/ WaitReacquire(r)
    \/ WaitRecheck(r)
    \/ CloneCall(r)
    \/ CloneLock(r)
    \/ CloneCopy(r)

SetterStep ==
    \/ \E c \in AllSeries : SetCall(c)
    \/ SetLock
    \/ SetCrit

Next ==
    \/ \E r \in Readers : ReaderStep(r)
    \/ SetterStep

Spec == Init /\ [][Next]_vars

\* ----------------------------------- start_background_worker, the worker's loop
\* line 121: price_list = shared_data.clone_prices()
WorkerStart ==
    /\ dpc = "start"
    /\ lock = {}
    /\ lock' = {Setter}
    /\ dpc' = "start_copy"
    /\ UNCHANGED <<mainVars, price_points, readerVars, setterVars, fetchVars, callVars,
                   price_list, upd, file, now, update_time, tz, command, fetched, wrote>>

MutStartsEmpty ==
    /\ dpc = "start_copy"
    /\ price_list' = <<>>
    /\ lock' = lock \ {Setter}
    /\ dpc' = "cycle"
    /\ UNCHANGED <<mainVars, price_points, readerVars, setterVars, fetchVars, callVars,
                   upd, file, now, update_time, tz, command, fetched, wrote>>

WorkerStartCopy ==
    /\ dpc = "start_copy"
    /\ price_list' = Cloned(price_points)
    /\ lock' = lock \ {Setter}
    /\ dpc' = "cycle"
    /\ UNCHANGED <<mainVars, price_points, readerVars, setterVars, fetchVars, callVars,
                   upd, file, now, update_time, tz, command, fetched, wrote>>

MutGateAlwaysFetches ==
    /\ dpc = "cycle"
    /\ upd' = "none" /\ dpc' = "fetch"
    /\ fetched' = NoPrices
    /\ wrote' = "none"
    /\ UNCHANGED <<mainVars, cacheVars, readerVars, setterVars, fetchVars, callVars,
                   price_list, file, now, update_time, tz, command>>

\* try_update, lines 386-389: the should_fetch_prices gate
TryUpdateGate ==
    /\ dpc = "cycle"
    /\ IF ~should_fetch_prices(price_list, update_time, now, tz)
       THEN upd' = "ok_false" /\ dpc' = "match"
       ELSE upd' = "none" /\ dpc' = "fetch"
    /\ fetched' = NoPrices
    /\ wrote' = "none"
    /\ UNCHANGED <<mainVars, cacheVars, readerVars, setterVars, fetchVars, callVars,
                   price_list, file, now, update_time, tz, command>>

\* what fetch_from_tibber can meet: fetch_price_info returns an error, it
\* panics (an unwrap in fetch_price_info_no_retry), or it returns today's and
\* tomorrow's points
FetchErr == [kind |-> "Err", today |-> <<>>, tomorrow |-> <<>>]
FetchPanic == [kind |-> "Panic", today |-> <<>>, tomorrow |-> <<>>]
FetchOk(a) ==
    {[kind |-> "Ok", today |-> a, tomorrow |-> b] :
        b \in SeqsUpTo(FetchedPoint, MaxLen - Len(a))}
FetchResults ==
    {FetchErr, FetchPanic} \cup UNION {FetchOk(a) : a \in SeqsUpTo(FetchedPoint, MaxLen)}

\* try_update, lines 393-409: the fetch (it takes time d) and the two checks;
\* a panic ends the thread
TryUpdateFetch(f, d) ==
    /\ dpc = "fetch"
    /\ now' = Min(now + d, MaxClock)
    /\ IF f.kind = "Panic"
       THEN /\ upd' = upd /\ dpc' = "dead" /\ price_list' = price_list
            /\ fetched' = fetched
       ELSE IF f.kind = "Err"
       THEN /\ upd' = "err" /\ dpc' = "match" /\ price_list' = price_list
            /\ fetched' = [kind |-> "Err", prices |-> <<>>]
       ELSE LET all_prices == fetch_from_tibber(f.today, f.tomorrow)
            IN  /\ fetched' = [kind |-> "Ok", prices |-> all_prices]
                /\ IF Len(all_prices) = 0
                   THEN upd' = "ok_false" /\ dpc' = "match" /\ price_list' = price_list
                   ELSE IF ~has_more_recent_prices(all_prices, price_list)
                   THEN upd' = "ok_false" /\ dpc' = "match" /\ price_list' = price_list
                   ELSE upd' = "none" /\ dpc' = "save" /\ price_list' = all_prices
    /\ UNCHANGED <<mainVars, cacheVars, readerVars, setterVars, fetchVars, callVars,
                   file, update_time, tz, command, wrote>>

MutSaveErrorIgnored(saved) ==
    /\ dpc = "save"
    /\ IF saved
       THEN file' = FileWith(price_list) /\ wrote' = "ok"
       ELSE file' = file /\ wrote' = "err"
    /\ upd' = "ok_true"
    /\ dpc' = "match"
    /\ UNCHANGED <<mainVars, cacheVars, readerVars, setterVars, fetchVars, callVars,
                   price_list, now, update_time, tz, command, fetched>>

\* try_update, lines 413-416: to_file succeeds or fails; prices_file changes
\* at the rename only (the steps of to_file are the ToFile actions below)
TryUpdateSave(saved) ==
    /\ dpc = "save"
    /\ IF saved
       THEN file' = FileWith(price_list) /\ upd' = "ok_true" /\ wrote' = "ok"
       ELSE file' = file /\ upd' = "err" /\ wrote' = "err"
    /\ dpc' = "match"
    /\ UNCHANGED <<mainVars, cacheVars, readerVars, setterVars, fetchVars, callVars,
                   price_list, now, update_time, tz, command, fetched>>

MutErrSkipsPublish ==
    /\ command = "daemon"
    /\ dpc = "match"
    /\ IF upd = "ok_false"
       THEN dpc' = "sleep" /\ UNCHANGED setterVars
       ELSE IF upd = "err"
       THEN dpc' = "recover" /\ UNCHANGED setterVars
       ELSE /\ dpc' = "publish"
            /\ wpc' = "s_lock"
            /\ cand' = Cloned(price_list)
            /\ ret' = FALSE
    /\ fetched' = Dropped(fetched)
    /\ UNCHANGED <<mainVars, cacheVars, readerVars, fetchVars, callVars,
                   price_list, upd, file, now, update_time, tz, command, wrote>>

\* lines 127-142: Ok(false) goes on; Ok(true) and Err call set_new_prices
WorkerMatch ==
    /\ command = "daemon"
    /\ dpc = "match"
    /\ IF upd = "ok_false"
       THEN dpc' = "sleep" /\ UNCHANGED setterVars
       ELSE /\ dpc' = "publish"
            /\ wpc' = "s_lock"
            /\ cand' = Cloned(price_list)
            /\ ret' = FALSE
    /\ fetched' = Dropped(fetched)
    /\ UNCHANGED <<mainVars, cacheVars, readerVars, fetchVars, callVars,
                   price_list, upd, file, now, update_time, tz, command, wrote>>

MutNoPause ==
    /\ dpc = "publish"
    /\ wpc = "s_done"
    /\ wpc' = "idle"
    /\ dpc' = "sleep"
    /\ UNCHANGED <<mainVars, cacheVars, readerVars, fetchVars, callVars, cand, ret,
                   price_list, upd, file, now, update_time, tz, command, fetched, wrote>>

\* set_new_prices has returned
WorkerPublished ==
    /\ dpc = "publish"
    /\ wpc = "s_done"
    /\ wpc' = "idle"
    /\ dpc' = IF upd = "err" THEN "recover" ELSE "sleep"
    /\ UNCHANGED <<mainVars, cacheVars, readerVars, fetchVars, callVars, cand, ret,
                   price_list, upd, file, now, update_time, tz, command, fetched, wrote>>

MutRecoverPersists(d) ==
    /\ dpc = "recover"
    /\ now' = Min(now + d, MaxClock)
    /\ dpc' = "sleep"
    /\ file' = FileWith(price_list)
    /\ UNCHANGED <<mainVars, cacheVars, readerVars, setterVars, fetchVars, callVars,
                   price_list, upd, update_time, tz, command, fetched, wrote>>

\* line 145: thread::sleep(60 s), less than one instant of the clock
WorkerRecover(d) ==
    /\ dpc = "recover"
    /\ now' = Min(now + d, MaxClock)
    /\ dpc' = "sleep"
    /\ UNCHANGED <<mainVars, cacheVars, readerVars, setterVars, fetchVars, callVars,
                   price_list, upd, file, update_time, tz, command, fetched, wrote>>

\* lines 149-162: sleep duration_to_new_price_list plus the jitter j (ms)
WorkerSleep(j) ==
    /\ dpc = "sleep"
    /\ LET wait_time_new_list ==
               duration_to_new_price_list(price_list, update_time, now, tz)
       IN  IF wait_time_new_list.panic
           THEN /\ now' = now /\ dpc' = "dead" /\ upd' = upd
                /\ wrote' = wrote /\ fetched' = fetched
           ELSE /\ now' = Min(now + (wait_time_new_list.ms + j) * TicksPerMs, MaxClock)
                /\ dpc' = "cycle"
                /\ upd' = "none"
                /\ wrote' = "none"
                /\ fetched' = NoPrices
    /\ UNCHANGED <<mainVars, cacheVars, readerVars, setterVars, fetchVars, callVars,
                   price_list, file, update_time, tz, command>>

\* the files a run can find: none, an empty one, one that to_file wrote
FoundFiles == {NoFile, FileOf(EmptyText)} \cup {FileWith(s) : s \in ClockSeries}

\* start_daemon, lines 189-210: the buffer holds what from_file loaded; a file
\* that does not parse ends the process (exit(1))
DaemonInit ==
    /\ file \in FoundFiles
    /\ LET prices_from_file == from_file(file)
       IN  IF prices_from_file.err
           THEN dpc = "exit" /\ price_points = <<>>
           ELSE dpc = "start" /\ price_points = prices_from_file.prices
    /\ CacheInit
    /\ NoMain
    /\ price_list = <<>>
    /\ upd = "none"
    /\ now \in 0..(DayLen - 1)
    /\ update_time \in 0..(DayLen - 1)
    /\ tz = FixedZone(DayLen - 1)
    /\ command = "daemon"
    /\ fetched = NoPrices
    /\ wrote = "none"
    /\ NoFetch
    /\ NoCall

DaemonNext ==
    \/ WorkerStart
    \/ WorkerStartCopy
    \/ TryUpdateGate
    \/ \E f \in FetchResults, d \in 0..1 : TryUpdateFetch(f, d)
    \/ \E saved \in BOOLEAN : TryUpdateSave(saved)
    \/ WorkerMatch
    \/ SetLock
    \/ SetCrit
    \/ WorkerPublished
    \/ \E d \in 0..1 : WorkerRecover(d)
    \/ \E j \in 0..1 : WorkerSleep(j)

DaemonSpec == DaemonInit /\ [][DaemonNext]_vars

\* ------------------------------------------- print_active_price, main.rs:129-161
\* lines 131-137: cached_prices = from_file(prices_file), or exit(1)
PriceLoad ==
    /\ command = "price"
    /\ dpc = "load"
    /\ LET prices_from_file == from_file(file)
       IN  IF prices_from_file.err
           THEN dpc' = "exit" /\ price_list' = price_list
           ELSE dpc' = "cycle" /\ price_list' = prices_from_file.prices
    /\ UNCHANGED <<mainVars, cacheVars, readerVars, setterVars, fetchVars, callVars,
                   upd, file, now, update_time, tz, command, fetched, wrote>>

\* lines 149-160: Ok(_) prints the active price, Err(e) is exit(1)
PriceMatch ==
    /\ command = "price"
    /\ dpc = "match"
    /\ IF upd = "err"
       THEN dpc' = "exit" /\ returned' = returned
       ELSE dpc' = "printed" /\ returned' = get_active_price(price_list, now)
    /\ called' = "get_active_price"
    /\ fetched' = Dropped(fetched)
    /\ UNCHANGED <<mainVars, cacheVars, readerVars, setterVars, fetchVars, price_info, persistVars,
                   price_list, upd, file, now, update_time, tz, command, wrote>>

\* the command runs at any instant, on any file it can find
PriceInit ==
    /\ file \in FoundFiles
    /\ price_points = <<>>
    /\ CacheInit
    /\ NoMain
    /\ dpc = "load"
    /\ price_list = <<>>
    /\ upd = "none"
    /\ now \in 0..MaxClock
    /\ update_time \in 0..(DayLen - 1)
    /\ tz \in {FixedZone(o) : o \in 0..(DayLen - 1)}
    /\ command = "price"
    /\ fetched = NoPrices
    /\ wrote = "none"
    /\ NoFetch
    /\ called = "none"
    /\ returned = <<>>
    /\ NoPersist

\* both ways into try_update: the daemon's worker and the price command
UpdateInit == DaemonInit \/ PriceInit

UpdateNext ==
    \/ DaemonNext
    \/ PriceLoad
    \/ PriceMatch

UpdateSpec == UpdateInit /\ [][UpdateNext]_vars

\* ------------------------------------------- TibberClient::fetch_price_info
\* what one call of fetch_price_info_no_retry meets: a good payload; a transport
\* failure, a non-success status or an unparsable body (each an Err, lines
\* 144-164); or a parsed payload without data, home or subscription (lines
\* 203-213, where unwrap panics)
Responses == {"ok", "transport", "status", "malformed", "no_data", "no_home",
              "no_subscription"}

MutStatusCheckInverted(resp) ==
    IF resp = "status" THEN "Ok"
    ELSE IF resp \in {"ok", "transport", "malformed"} THEN "Err"
    ELSE "Panic"

\* Ok, Err or a panic of the calling thread
fetch_price_info_no_retry(resp) ==
    IF resp = "ok" THEN "Ok"
    ELSE IF resp \in {"transport", "status", "malformed"} THEN "Err"
    ELSE "Panic"

\* lines 226-228
FetchCall ==
    /\ fpc \in {"idle", "ok", "exhausted"}
    /\ fpc' = "attempt"
    /\ attempt' = 0
    /\ delay' = initial_delay_ms
    /\ calls' = 0
    /\ slept' = <<>>
    /\ served' = <<>>
    /\ reported' = 0
    /\ UNCHANGED <<mainVars, cacheVars, readerVars, setterVars, daemonVars, callVars,
                   max_retries, initial_delay_ms, max_delay_ms>>

MutGivesUpOneEarlier(a, m) == a >= m

\* line 240
BudgetExhausted(a, m) == a > m

\* lines 231-247: one pass of the loop up to the sleep
FetchAttempt(resp) ==
    /\ fpc = "attempt"
    /\ attempt' = attempt + 1
    /\ calls' = calls + 1
    /\ served' = Append(served, resp)
    /\ LET r == fetch_price_info_no_retry(resp)
       IN  IF r = "Ok" THEN fpc' = "ok" /\ reported' = reported
           ELSE IF r = "Panic" THEN fpc' = "panicked" /\ reported' = reported
           ELSE IF BudgetExhausted(attempt', max_retries)
                THEN fpc' = "exhausted" /\ reported' = max_retries
                ELSE fpc' = "sleep" /\ reported' = reported
    /\ UNCHANGED <<mainVars, cacheVars, readerVars, setterVars, daemonVars, callVars,
                   max_retries, initial_delay_ms, max_delay_ms, delay, slept>>

\* lines 250-258: sleep, then double the delay up to max_delay_ms
FetchSleep ==
    /\ fpc = "sleep"
    /\ slept' = Append(slept, delay)
    /\ delay' = Min(delay * 2, max_delay_ms)
    /\ fpc' = "attempt"
    /\ UNCHANGED <<mainVars, cacheVars, readerVars, setterVars, daemonVars, callVars,
                   max_retries, initial_delay_ms, max_delay_ms, attempt, calls, served,
                   reported>>

\* TibberClient::try_new with any configuration
FetchInit ==
    /\ price_points = <<>>
    /\ CacheInit
    /\ NoMain
    /\ NoDaemon
    /\ fpc = "idle"
    /\ max_retries \in 0..MaxRetries
    /\ initial_delay_ms \in 1..MaxDelayMs
    /\ max_delay_ms \in 1..MaxDelayMs
    /\ attempt = 0
    /\ delay = 0
    /\ calls = 0
    /\ slept = <<>>
    /\ served = <<>>
    /\ reported = 0
    /\ NoCall

FetchNext ==
    \/ FetchCall
    \/ \E resp \in Responses : FetchAttempt(resp)
    \/ FetchSleep

FetchSpec == FetchInit /\ [][FetchNext]_vars

\* the calling thread runs on: a call to the source returns (the blocking HTTP
\* client has a timeout) and thread::sleep ends
FetchFairness ==
    /\ WF_vars(\E resp \in Responses : FetchAttempt(resp))
    /\ WF_vars(FetchSleep)

FetchLiveSpec == FetchInit /\ [][FetchNext]_vars /\ FetchFairness

\* scheduling: a thread that holds the lock runs on; a thread blocked in lock()
\* gets the lock when it is released again and again (every thread sleeps or
\* waits between two acquisitions); the timeout of wait_timeout fires while
\* the thread stays blocked. A spurious wake-up and a new call are never owed.
Fairness ==
    /\ \A r \in Readers :
         /\ SF_vars(WaitLock(r)) /\ SF_vars(WaitReacquire(r)) /\ SF_vars(CloneLock(r))
         /\ WF_vars(WaitCheck(r)) /\ WF_vars(WaitRecheck(r)) /\ WF_vars(CloneCopy(r))
         /\ WF_vars(WaitTimesOut(r))
    /\ SF_vars(SetLock)
    /\ WF_vars(SetCrit)

\* the liveness runs use the price lists of the unit tests (create_test_prices):
\* at most one point, which still gives every recency
TestSeries == {s \in AllSeries : Len(s) <= 1}

LiveInit == Init /\ price_points \in TestSeries

LiveNext ==
    \/ \E r \in Readers : ReaderStep(r)
    \/ \E c \in TestSeries : SetCall(c)
    \/ SetLock
    \/ SetCrit

LiveSpec == LiveInit /\ [][LiveNext]_vars /\ Fairness

\* ------------------------------------------------------------------ claims
\* recency of a price list as the specification defines it: the starts_at of
\* the last point, an empty list being older than anything
RecencyOf(s) == IF s = <<>> THEN 0 ELSE s[Len(s)].starts_at

Waiting == {r \in Readers : pc[r] = "w_waiting"}

InstallStep == wpc = "s_crit" /\ wpc' = "s_done"

\* C1: set_new_prices replaces the held list and returns true exactly when the
\* candidate's recency is strictly greater than the held list's; otherwise it
\* returns false and leaves the held list and the waiting readers as they were.
C1_InstallOnlyStrictlyNewer ==
    [][InstallStep =>
         LET newer == RecencyOf(cand) > RecencyOf(price_points)
         IN  /\ ret' = newer
             /\ newer => price_points' = cand
             /\ ~newer => /\ price_points' = price_points
                          /\ Waiting' = Waiting
                          /\ pc' = pc]_vars

\* the same candidate offered again: declined, while readers are waiting
C1_Witness ==
    /\ wpc = "s_done" /\ ~ret
    /\ cand = price_points /\ cand # <<>>
    /\ Waiting # {}

\* C2: no missed wake-up: a reader whose call saw a list newer than its baseline
\* installed between its entry and its return has returned true.
C2_NoMissedWakeup ==
    \A r \in Readers : (pc[r] = "w_done" /\ seen_newer[r]) => result[r]

\* the install raced with the reader's timeout
C2_Witness ==
    \E r \in Readers : pc[r] = "w_done" /\ seen_newer[r] /\ wake[r] = "timeout"

\* C3: wait_for_new_prices returns false only after its timeout has fired.
C3_FalseOnlyAfterTimeout ==
    \A r \in Readers : (pc[r] = "w_done" /\ ~result[r]) => wake[r] = "timeout"

\* C4: wait_for_new_prices returns true without blocking when the held list is
\* already newer than the baseline when it checks; it blocks only otherwise, and
\* then returns whether the held list is newer than the baseline at the moment
\* of return, whatever woke it; it never returns true while the held list is empty.
C4_ReturnIsRecheck ==
    [][\A r \in Readers :
         /\ (pc[r] = "w_check" /\ pc'[r] # "w_check") =>
              IF RecencyOf(price_points) > after[r]
              THEN pc'[r] = "w_done" /\ result'[r]
              ELSE pc'[r] = "w_waiting"
         /\ (pc[r] # "w_done" /\ pc'[r] = "w_done") =>
              /\ result'[r] = (RecencyOf(price_points') > after[r])
              /\ price_points' = <<>> => ~result'[r]]_vars

\* woken by a notification, and yet false: the recheck decided
C4_Witness ==
    \E r \in Readers : pc[r] = "w_done" /\ ~result[r] /\ wake[r] = "notify"

InCall(r) == pc[r] \notin Idle

\* C5: every call returns: a reader inside wait_for_new_prices or clone_prices
\* gets back to its caller, set_new_prices returns, and in no reachable state
\* are the threads inside a call all unable to move.
C5_EveryWaitBounded ==
    /\ \A r \in Readers : InCall(r) ~> ~InCall(r)
    /\ (wpc \in {"s_lock", "s_crit"}) ~> (wpc = "s_done")
    /\ []((\E r \in Readers : InCall(r)) \/ wpc \in {"s_lock", "s_crit"}
            => \/ \E r \in Readers :
                    ENABLED (WaitLock(r) \/ WaitCheck(r) \/ WaitTimesOut(r)
                             \/ WaitReacquire(r) \/ WaitRecheck(r)
                             \/ CloneLock(r) \/ CloneCopy(r))
               \/ ENABLED (SetLock \/ SetCrit))

\* every thread is inside a call: one holds the lock, one is blocked on it, one waits
C5_Witness ==
    /\ wpc = "s_crit"
    /\ \E r \in Readers : pc[r] = "w_waiting"
    /\ \E r \in Readers : pc[r] \in {"w_lock", "c_lock", "w_woken"}

\* C6: an install wakes every waiting reader at once, and each reader it woke
\* whose baseline the installed list exceeds returns true.
C6_InstallWakesAll ==
    /\ [][(InstallStep /\ ret') =>
            \A r \in Waiting : pc'[r] = "w_woken" /\ wake'[r] = "notify"]_vars
    /\ [](\A r \in Readers :
            (pc[r] = "w_done" /\ wake[r] = "notify" /\ seen_newer[r]) => result[r])

\* two readers woken by one install, both returned true
C6_Witness ==
    /\ Cardinality({r \in Readers : pc[r] = "w_done" /\ wake[r] = "notify"
                                      /\ seen_newer[r] /\ result[r]}) >= 2

\* C7: clone_prices returns the whole list held at the moment of the copy, a
\* returned copy is not changed by anything that happens later, and the held
\* list changes only in set_new_prices, to the complete candidate.
C7_SnapshotWholeAndDetached ==
    [][/\ \A r \in Readers :
            /\ (pc[r] = "c_copy" /\ pc'[r] = "c_done") =>
                  copy'[r] = price_points /\ price_points' = price_points
            /\ (pc[r] = "c_done" /\ pc'[r] = "c_done") => copy'[r] = copy[r]
       /\ price_points' # price_points => InstallStep /\ price_points' = cand]_vars

\* a snapshot that a later install has left behind
C7_Witness ==
    \E r \in Readers :
        pc[r] = "c_done" /\ Len(copy[r]) > 1 /\ Len(price_points) > 1
        /\ copy[r] # price_points

\* C8: in daemon mode the recency of the list held by the shared buffer never
\* decreases, and a held list that is not empty is never replaced by an empty
\* one, whatever fetches and saves fail.
C8_HeldRecencyNeverDecreases ==
    [][/\ RecencyOf(price_points') >= RecencyOf(price_points)
       /\ price_points # <<>> => price_points' # <<>>]_vars

\* a save failed and a later fetch failed: the buffer holds the list that the
\* file does not have, and the worker pauses
C8_Witness ==
    /\ dpc = "recover" /\ upd = "err"
    /\ price_points # <<>>
    /\ price_points = price_list
    /\ file # FileWith(price_points)
    /\ ret = FALSE

C10_ReportedCountIsCallsMade == fpc = "exhausted" => reported = calls

\* ------------------------------------ the functions of PricePoints, one call
\* the price list with one point at each instant of S
RECURSIVE SeriesOn(_)
SeriesOn(S) ==
    IF S = {} THEN <<>>
    ELSE LET first == CHOOSE x \in S : \A y \in S : x <= y
         IN  <<[total |-> 1, starts_at |-> first]>> \o SeriesOn(S \ {first})

\* the price lists the functions are called on: the short lists with any
\* points (equal starts_at included) and the lists of any length with one
\* point per instant
PricingSeries == ClockSeries \cup {SeriesOn(S) : S \in SUBSET ClockTimes}

\* the zones: fixed ones and ones whose clocks change once
Zones ==
    {FixedZone(o) : o \in 0..(DayLen - 1)} \cup
    {z \in [at : 1..(MaxClock + DayLen), before : 0..(DayLen - 1),
            after : 0..(DayLen - 1)] : z.before # z.after}

CallGetActivePrice ==
    /\ called = "none"
    /\ called' = "get_active_price"
    /\ returned' = get_active_price(price_list, now)
    /\ UNCHANGED <<mainVars, cacheVars, readerVars, setterVars, daemonVars, fetchVars,
                   price_info, persistVars>>

CallShouldFetchPrices ==
    /\ called = "none"
    /\ called' = "should_fetch_prices"
    /\ returned' = should_fetch_prices(price_list, update_time, now, tz)
    /\ UNCHANGED <<mainVars, cacheVars, readerVars, setterVars, daemonVars, fetchVars,
                   price_info, persistVars>>

CallDurationToNewPriceList ==
    /\ called = "none"
    /\ called' = "duration_to_new_price_list"
    /\ returned' = duration_to_new_price_list(price_list, update_time, now, tz)
    /\ UNCHANGED <<mainVars, cacheVars, readerVars, setterVars, daemonVars, fetchVars,
                   price_info, persistVars>>

CallDurationToNextActivePrice ==
    /\ called = "none"
    /\ called' = "duration_to_next_active_price"
    /\ returned' = duration_to_next_active_price(price_list, now)
    /\ UNCHANGED <<mainVars, cacheVars, readerVars, setterVars, daemonVars, fetchVars,
                   price_info, persistVars>>

\* new_prices.has_more_recent_prices(&held) and the same call the other way round
CallHasMoreRecentPrices(new_prices) ==
    /\ called = "none"
    /\ called' = "has_more_recent_prices"
    /\ cand' = new_prices
    /\ returned' = [there |-> has_more_recent_prices(new_prices, price_list),
                    back |-> has_more_recent_prices(price_list, new_prices)]
    /\ UNCHANGED <<mainVars, cacheVars, readerVars, wpc, ret, daemonVars, fetchVars,
                   price_info, persistVars>>

\* any price list, any instant, any update time, any zone
PricingInit ==
    /\ price_points = <<>>
    /\ CacheInit
    /\ NoMain
    /\ dpc = "off"
    /\ price_list \in PricingSeries
    /\ upd = "none"
    /\ file = NoFile
    /\ now \in 0..MaxClock
    /\ update_time \in 0..(DayLen - 1)
    /\ tz \in Zones
    /\ command = "none"
    /\ fetched = NoPrices
    /\ wrote = "none"
    /\ NoFetch
    /\ called = "none"
    /\ returned = <<>>
    /\ NoPersist

PricingNext ==
    \/ CallGetActivePrice
    \/ CallShouldFetchPrices
    \/ CallDurationToNewPriceList
    \/ CallDurationToNextActivePrice

PricingSpec == PricingInit /\ [][PricingNext]_vars

\* has_more_recent_prices on any two price lists
RecencyInit ==
    /\ price_points = <<>>
    /\ CacheInit
    /\ NoMain
    /\ dpc = "off"
    /\ price_list \in ClockSeries
    /\ upd = "none"
    /\ file = NoFile
    /\ now = 0
    /\ update_time = 0
    /\ tz = FixedZone(0)
    /\ command = "none"
    /\ fetched = NoPrices
    /\ wrote = "none"
    /\ NoFetch
    /\ called = "none"
    /\ returned = <<>>
    /\ NoPersist

RecencyNext == \E new_prices \in ClockSeries : CallHasMoreRecentPrices(new_prices)

RecencySpec == RecencyInit /\ [][RecencyNext]_vars

\* the fetch has ended: with a result, or with the panic of its thread
FetchEnded == fpc \in {"ok", "exhausted", "panicked"}

\* C11: a source that fails k <= max_retries times and then succeeds: the
\* success comes back after exactly k + 1 calls and no call follows it; whatever
\* the source does, the fetch ends after at most max_retries + 1 calls.
C11_SuccessAfterKFailures ==
    /\ [](fpc = "ok" => /\ served[Len(served)] = "ok"
                        /\ calls = Len(served))
    /\ [](\A i \in 1..Len(served) :
            served[i] = "ok" => i = Len(served) /\ fpc = "ok")
    /\ [](fpc = "exhausted" => Len(served) > max_retries)
    /\ [](calls <= max_retries + 1)
    /\ (fpc \in {"attempt", "sleep"}) ~> FetchEnded

\* the unit test's run: two failures, then the success, three calls
C11_Witness ==
    /\ fpc = "ok" /\ max_retries = 3 /\ calls = 3
    /\ served = <<"status", "status", "ok">>

\* C12: the k-th sleep is min(initial_delay_ms * 2^(k-1), max_delay_ms), so no
\* sleep is longer than max_delay_ms, for every configuration.
C12_BackoffDoublesAndIsCapped ==
    \A k \in 1..Len(slept) :
        /\ slept[k] = Min(initial_delay_ms * (2 ^ (k - 1)), max_delay_ms)
        /\ slept[k] <= max_delay_ms

\* C13: every answer of the source that is not a good payload counts as one
\* failed attempt: it is followed by a retry or by the terminal error.
C13_EveryFailureIsRetried ==
    [][(fpc = "attempt" /\ fpc' # "attempt" /\ served'[Len(served')] # "ok")
          => fpc' \in {"sleep", "exhausted"}]_vars

\* ---- claims about the functions of PricePoints (PricingSpec)
\* coverage of an instant d, as the specification defines it: a point strictly
\* before d and a point strictly after d
Covers(d) ==
    /\ \E i \in 1..Len(price_list) : price_list[i].starts_at < d
    /\ \E i \in 1..Len(price_list) : price_list[i].starts_at > d

TodayCovered == Covers(now)

TomorrowCovered == Covers(now + DayLen)

\* the reading of the local clock now, its time of day and the start of its day
LocalReading == now + (IF now < tz.at THEN tz.before ELSE tz.after)

LocalTimeOfDay == LocalReading % DayLen

LocalMidnight == LocalReading - LocalTimeOfDay

\* the instants at which the local clock reads l
InstantsReading(l) ==
    {u \in (0 - DayLen)..(MaxClock + 3 * DayLen) :
        u + (IF u < tz.at THEN tz.before ELSE tz.after) = l}

\* C14: get_active_price returns the point that starts at or before now while
\* its successor starts after now, and nothing when there is no such pair: for
\* an empty list, before the first point, and at or after the last point's start.
C14_ActivePriceIsStraddledPoint ==
    called = "get_active_price" =>
        LET s == price_list
            Active(i) == s[i].starts_at <= now /\ now < s[i + 1].starts_at
        IN  /\ \A i \in 1..(Len(s) - 1) : Active(i) => returned = <<s[i]>>
            /\ (~\E i \in 1..(Len(s) - 1) : Active(i)) => returned = <<>>
            /\ (Len(s) = 0 \/ now < s[1].starts_at \/ now >= s[Len(s)].starts_at)
                  => returned = <<>>
            /\ Len(s) <= 1 => returned = <<>>

\* a point in the middle of a longer list is the active one
C14_Witness ==
    /\ called = "get_active_price"
    /\ Len(price_list) >= 3
    /\ returned = <<price_list[2]>>
    /\ now > price_list[2].starts_at

\* C15: should_fetch_prices is true when today is not covered; otherwise true
\* when tomorrow is not covered and the local time of day is at or past
\* update_time; otherwise false.
C15_ShouldFetchRule ==
    called = "should_fetch_prices" =>
        returned = (\/ ~TodayCovered
                    \/ (~TomorrowCovered /\ LocalTimeOfDay >= update_time))

\* today covered, tomorrow not, and the update time has come
C15_Witness ==
    /\ called = "should_fetch_prices"
    /\ TodayCovered /\ ~TomorrowCovered
    /\ LocalTimeOfDay >= update_time
    /\ returned = TRUE

\* C16 as stated: today covered, tomorrow not, local time before update_time:
\* should_fetch_prices returns true and duration_to_new_price_list returns 0.
C16_FetchDueBeforeUpdateTime ==
    (TodayCovered /\ ~TomorrowCovered /\ LocalTimeOfDay < update_time) =>
        /\ called = "should_fetch_prices" => returned = TRUE
        /\ called = "duration_to_new_price_list" => returned = Millis(0)

\* C16 amended: today covered, tomorrow not, local time before update_time:
\* should_fetch_prices returns false, and duration_to_new_price_list returns
\* the whole milliseconds that remain until update_time of today (it panics
\* only where a change of the clocks leaves update_time without exactly one
\* instant on today's or tomorrow's local date).
C16_NoFetchBeforeUpdateTime ==
    (TodayCovered /\ ~TomorrowCovered /\ LocalTimeOfDay < update_time) =>
        /\ called = "should_fetch_prices" => returned = FALSE
        /\ called = "duration_to_new_price_list" =>
             IF returned.panic
             THEN \E d \in {LocalMidnight, LocalMidnight + DayLen,
                            (now + DayLen + (IF now + DayLen < tz.at THEN tz.before
                                             ELSE tz.after))
                              - ((now + DayLen + (IF now + DayLen < tz.at THEN tz.before
                                                  ELSE tz.after)) % DayLen)} :
                      Cardinality(InstantsReading(d + update_time)) # 1
             ELSE \E u \in InstantsReading(LocalMidnight + update_time) :
                      /\ u > now
                      /\ returned.ms = (u - now) \div TicksPerMs

\* a positive wait for today's update
C16_Witness ==
    /\ TodayCovered /\ ~TomorrowCovered /\ LocalTimeOfDay < update_time
    /\ called = "duration_to_new_price_list"
    /\ ~returned.panic /\ returned.ms > 0

\* C17: duration_to_new_price_list is 0 when today is not covered; else, when
\* tomorrow is covered, the time from now until update_time of the following
\* local calendar day; else 0 when the local clock is past update_time of today;
\* else the time until update_time of today. It always returns, and never a
\* negative interval turned into a huge unsigned one.
C17_DurationByCoverage ==
    called = "duration_to_new_price_list" =>
        /\ ~returned.panic
        /\ returned.ms < U64 \div 2
        /\ IF ~TodayCovered THEN returned.ms = 0
           ELSE IF TomorrowCovered
                THEN \A u \in InstantsReading(LocalMidnight + DayLen + update_time) :
                         returned.ms = (u - now) \div TicksPerMs
           ELSE IF LocalTimeOfDay > update_time THEN returned.ms = 0
           ELSE \A u \in InstantsReading(LocalMidnight + update_time) :
                    returned.ms = (u - now) \div TicksPerMs

\* the local day is today or tomorrow
InTodayOrTomorrow(u) ==
    LET l == u + (IF u < tz.at THEN tz.before ELSE tz.after)
    IN  l - (l % DayLen) \in {LocalMidnight, LocalMidnight + DayLen}

\* a point at every instant of the local days today and tomorrow
FullyCovered ==
    \A u \in (0 - DayLen)..(MaxClock + 3 * DayLen) :
        InTodayOrTomorrow(u) => \E i \in 1..Len(price_list) : price_list[i].starts_at = u

\* C18: with a point at every instant of today and of tomorrow, at any local
\* time of today duration_to_new_price_list is the time that remains until
\* update_time of the following local day and should_fetch_prices is false
\* (already in a zone whose clocks never change, and with a point before now).
C18_FullCoverageWaitsForTomorrow ==
    (FullyCovered /\ TodayCovered /\ tz.before = tz.after) =>
        /\ called = "should_fetch_prices" => returned = FALSE
        /\ called = "duration_to_new_price_list" =>
             /\ ~returned.panic
             /\ returned.ms =
                  (LocalMidnight + DayLen + update_time - LocalReading) \div TicksPerMs

\* C19: duration_to_next_active_price returns nothing for an empty list and
\* for a list with no point after now; otherwise whole milliseconds that are
\* no less than the gap from now to the earliest point after now, and no more
\* than one millisecond above it.
C19_NextActiveRoundedUp ==
    called = "duration_to_next_active_price" =>
        LET s == price_list
            later == {s[i].starts_at : i \in {j \in 1..Len(s) : s[j].starts_at > now}}
        IN  IF s = <<>> \/ later = {} THEN returned = <<>>
            ELSE /\ returned # <<>>
                 /\ \E e \in later :
                      /\ \A l \in later : e <= l
                      /\ returned[1] * TicksPerMs >= e - now
                      /\ (returned[1] - 1) * TicksPerMs <= e - now

\* a gap that is not a whole number of milliseconds, after points that are past
C19_Witness ==
    /\ called = "duration_to_next_active_price"
    /\ returned # <<>>
    /\ Len(price_list) >= 3
    /\ price_list[1].starts_at <= now
    /\ \E i \in 1..Len(price_list) :
          /\ price_list[i].starts_at > now
          /\ (price_list[i].starts_at - now) % TicksPerMs # 0
          /\ returned[1] * TicksPerMs > price_list[i].starts_at - now
          /\ \A j \in 1..(i - 1) : price_list[j].starts_at <= now

\* C20: has_more_recent_prices is irreflexive, strict (lists with the same
\* last starts_at are not newer than each other) and asymmetric; an empty list
\* is newer than nothing, and every list with a point is newer than an empty one.
C20_NewerIsStrictOrder ==
    called = "has_more_recent_prices" =>
        /\ cand = price_list => ~returned.there
        /\ (cand # <<>> /\ price_list # <<>>
              /\ cand[Len(cand)].starts_at = price_list[Len(price_list)].starts_at)
             => ~returned.there /\ ~returned.back
        /\ ~(returned.there /\ returned.back)
        /\ cand = <<>> => ~returned.there
        /\ price_list = <<>> => ~returned.back
        /\ (cand # <<>> /\ price_list = <<>>) => returned.there

\* two different lists that end at the same instant
C20_Witness ==
    /\ called = "has_more_recent_prices"
    /\ Len(cand) = 2 /\ Len(price_list) = 1
    /\ cand[2].starts_at = price_list[1].starts_at
    /\ ~returned.there /\ ~returned.back

\* --------------------------------------------- fetch_from_tibber, one call
\* the points of a reply: two totals at each instant, so that points with the
\* same starts_at can differ
ReplyPoint == [total : 0..MaxTotal, starts_at : Times]

\* the replies of fetch_price_info: an error, or today's and tomorrow's points
\* in any order
Replies ==
    {FetchErr} \cup [kind : {"Ok"}, today : SeqsUpTo(ReplyPoint, MaxLen),
                     tomorrow : SeqsUpTo(ReplyPoint, MaxLen)]

\* lines 368-378; line 369: the error of fetch_price_info is returned
CallFetchFromTibber ==
    /\ called = "none"
    /\ called' = "fetch_from_tibber"
    /\ returned' = IF price_info.kind = "Err" THEN Err
                   ELSE Ok(fetch_from_tibber(price_info.today, price_info.tomorrow))
    /\ UNCHANGED <<mainVars, cacheVars, readerVars, setterVars, daemonVars, fetchVars,
                   price_info, persistVars>>

MergeInit ==
    /\ price_points = <<>>
    /\ CacheInit
    /\ NoMain
    /\ NoDaemon
    /\ NoFetch
    /\ called = "none"
    /\ returned = <<>>
    /\ price_info \in Replies
    /\ tmp = NoFile
    /\ handle = NoHandle
    /\ prev = NoFile
    /\ spc = "off"

MergeNext == CallFetchFromTibber

MergeSpec == MergeInit /\ [][MergeNext]_vars

\* how often the point p occurs in s
Count(s, p) == Cardinality({i \in DOMAIN s : s[i] = p})

\* the points of s that start at t, in their order in s
StartingAt(s, t) ==
    LET At(p) == p.starts_at = t
    IN  SelectSeq(s, At)

\* C21: whatever the two lists of the reply hold, in whatever order,
\* fetch_from_tibber returns a list sorted by starts_at that holds every point
\* as often as the two lists together do, and the points of one starts_at come
\* in the order they have in today's list followed by tomorrow's.
C21_MergeIsStableSortedUnion ==
    called = "fetch_from_tibber" /\ price_info.kind = "Ok" =>
        LET given == price_info.today \o price_info.tomorrow
            all_prices == returned.prices
        IN  /\ ~returned.err
            /\ \A i \in 1..(Len(all_prices) - 1) :
                   all_prices[i].starts_at <= all_prices[i + 1].starts_at
            /\ \A p \in ReplyPoint :
                   Count(all_prices, p) =
                       Count(price_info.today, p) + Count(price_info.tomorrow, p)
            /\ \A t \in Times : StartingAt(all_prices, t) = StartingAt(given, t)

\* today's list is out of order, and its later point shares its starts_at with
\* a different point of tomorrow's list
C21_Witness ==
    /\ called = "fetch_from_tibber"
    /\ price_info.kind = "Ok"
    /\ Len(price_info.today) = 2 /\ Len(price_info.tomorrow) >= 1
    /\ price_info.today[1].starts_at > price_info.today[2].starts_at
    /\ price_info.tomorrow[1].starts_at = price_info.today[1].starts_at
    /\ price_info.tomorrow[1].total # price_info.today[1].total
    /\ Len(returned.prices) = Len(price_info.today) + Len(price_info.tomorrow)

\* ------------------------------------------- to_file and from_file, step by step
\* line 331: to_writer_pretty writes the text piece by piece; the text after
\* the next write
NextPiece(text, s) ==
    IF ~text.open THEN Text(TRUE, <<>>, FALSE)
    ELSE IF Len(text.items) < Len(s)
    THEN Text(TRUE, Append(text.items, serialize(s[Len(text.items) + 1])), FALSE)
    ELSE Text(TRUE, text.items, TRUE)

MutRenamesEarly(text) == TRUE

\* to_writer_pretty has returned: the text is whole
WriteDone(text) == text.close

\* line 330: File::create(&temp_path) makes the file or empties it
ToFileCreate(ok) ==
    /\ spc = "create"
    /\ IF ok
       THEN tmp' = FileOf(EmptyText) /\ spc' = "write" /\ wrote' = wrote
       ELSE tmp' = tmp /\ spc' = "returned" /\ wrote' = "err"
    /\ UNCHANGED <<mainVars, cacheVars, readerVars, setterVars, fetchVars, called, returned,
                   price_info, handle, prev, dpc, price_list, upd, file, now,
                   update_time, tz, command, fetched>>

\* line 331: one write of to_writer_pretty
ToFileWrite(ok) ==
    /\ spc = "write"
    /\ ~WriteDone(tmp.content)
    /\ IF ok
       THEN /\ tmp' = FileOf(NextPiece(tmp.content, price_list))
            /\ spc' = spc /\ wrote' = wrote
       ELSE tmp' = tmp /\ spc' = "returned" /\ wrote' = "err"
    /\ UNCHANGED <<mainVars, cacheVars, readerVars, setterVars, fetchVars, called, returned,
                   price_info, handle, prev, dpc, price_list, upd, file, now,
                   update_time, tz, command, fetched>>

\* line 335: rename(&temp_path, filepath), one step of the file system
ToFileRename(ok) ==
    /\ spc = "write"
    /\ WriteDone(tmp.content)
    /\ IF ok
       THEN file' = tmp /\ tmp' = NoFile /\ wrote' = "ok"
       ELSE file' = file /\ tmp' = tmp /\ wrote' = "err"
    /\ spc' = "returned"
    /\ UNCHANGED <<mainVars, cacheVars, readerVars, setterVars, fetchVars, called, returned,
                   price_info, handle, prev, dpc, price_list, upd, now,
                   update_time, tz, command, fetched>>

\* the process ends inside to_file, between any two of its steps
ToFileCrash ==
    /\ spc \in {"create", "write"}
    /\ spc' = "crashed"
    /\ UNCHANGED <<mainVars, cacheVars, readerVars, setterVars, fetchVars, called, returned,
                   price_info, tmp, handle, prev, daemonVars>>

\* from_file, lines 345-351: the path does not exist
LoadExists ==
    /\ called = "none"
    /\ IF ~file.exists
       THEN called' = "from_file" /\ returned' = from_file(file)
       ELSE called' = "open" /\ returned' = returned
    /\ UNCHANGED <<mainVars, cacheVars, readerVars, setterVars, fetchVars, daemonVars,
                   price_info, persistVars>>

\* line 353: File::open(filepath)
LoadOpen ==
    /\ called = "open"
    /\ handle' = Opened(file)
    /\ called' = "read"
    /\ UNCHANGED <<mainVars, cacheVars, readerVars, setterVars, fetchVars, daemonVars,
                   returned, price_info, tmp, prev, spc>>

\* lines 354-363: from_reader and the sort, on the file that was opened
LoadRead ==
    /\ called = "read"
    /\ returned' = from_file(FileOf(handle.content))
    /\ called' = "from_file"
    /\ UNCHANGED <<mainVars, cacheVars, readerVars, setterVars, fetchVars, daemonVars,
                   price_info, persistVars>>

\* the points of a saved list: two totals at each instant of the clock
SavedPoint == [total : 0..MaxTotal, starts_at : ClockTimes]

\* the lists to_file is called on
SavedSeries == {s \in SeqsUpTo(SavedPoint, MaxLen) : IsSorted(s)}

\* what prices_file can hold before: nothing, an empty file, a list of an
\* earlier to_file; temp_path: nothing, or what an interrupted to_file left
PersistInit ==
    /\ price_points = <<>>
    /\ CacheInit
    /\ NoMain
    /\ dpc = "off"
    /\ price_list \in SavedSeries
    /\ upd = "none"
    /\ file \in {NoFile, FileOf(EmptyText)} \cup {FileWith(s) : s \in SavedSeries}
    /\ now = 0
    /\ update_time = 0
    /\ tz = FixedZone(0)
    /\ command = "none"
    /\ fetched = NoPrices
    /\ wrote = "none"
    /\ NoFetch
    /\ called = "none"
    /\ returned = <<>>
    /\ price_info = NoPriceInfo
    /\ tmp \in {NoFile, FileOf(Text(TRUE, <<>>, FALSE))}
    /\ handle = NoHandle
    /\ prev = file
    /\ spc = "create"

\* one to_file, and one from_file of the same path at any time
PersistNext ==
    \/ \E ok \in BOOLEAN : ToFileCreate(ok)
    \/ \E ok \in BOOLEAN : ToFileWrite(ok)
    \/ \E ok \in BOOLEAN : ToFileRename(ok)
    \/ ToFileCrash
    \/ LoadExists
    \/ LoadOpen
    \/ LoadRead

PersistSpec == PersistInit /\ [][PersistNext]_vars

C23_LoadSeesOldOrNew ==
    /\ file \in {prev, FileWith(price_list)}
    /\ called = "from_file" =>
           returned \in {from_file(prev), from_file(FileWith(price_list))}
    /\ (spc = "crashed" \/ (spc = "returned" /\ wrote = "err")) => file = prev

\* from_file opened the path while to_file was writing and read it after the
\* rename: it returns the previous list
C23_Witness ==
    /\ spc = "returned" /\ wrote = "ok"
    /\ called = "from_file"
    /\ prev.exists /\ prev.content.close
    /\ from_file(prev) # from_file(file)
    /\ returned = from_file(prev)
    /\ Len(price_list) = 2

\* ------------------------------------------------- from_file of any file
\* the texts a file can hold: nothing, an array of points in any order, or
\* such an array cut short
Texts ==
    {EmptyText} \cup
    {Text(TRUE, [i \in 1..Len(s) |-> serialize(s[i])], c) :
        s \in SeqsUpTo(SavedPoint, MaxLen), c \in BOOLEAN}

LoadInit ==
    /\ price_points = <<>>
    /\ CacheInit
    /\ NoMain
    /\ dpc = "off"
    /\ price_list = <<>>
    /\ upd = "none"
    /\ file \in {NoFile} \cup {FileOf(text) : text \in Texts}
    /\ now = 0
    /\ update_time = 0
    /\ tz = FixedZone(0)
    /\ command = "none"
    /\ fetched = NoPrices
    /\ wrote = "none"
    /\ NoFetch
    /\ called = "none"
    /\ returned = <<>>
    /\ price_info = NoPriceInfo
    /\ tmp = NoFile
    /\ handle = NoHandle
    /\ prev = file
    /\ spc = "off"

LoadNext ==
    \/ LoadExists
    \/ LoadOpen
    \/ LoadRead

LoadSpec == LoadInit /\ [][LoadNext]_vars

\* the file holds a whole array
Parses == file.content.open /\ file.content.close

\* how often the point p is written in the file
Written(p) ==
    Cardinality({i \in DOMAIN file.content.items :
        /\ file.content.items[i].total = p.total
        /\ file.content.items[i].startsAt.date * DayLen
               + file.content.items[i].startsAt.time = p.starts_at})

\* C24: from_file of a path that does not exist returns the empty list and no
\* error; of a file that parses, its points sorted by starts_at whatever their
\* order in the file; of a file that does not parse, an error and no list.
C24_LoadMissingSortedOrError ==
    called = "from_file" =>
        IF ~file.exists THEN returned = Ok(<<>>)
        ELSE IF Parses
        THEN /\ ~returned.err
             /\ IsSorted(returned.prices)
             /\ Len(returned.prices) = Len(file.content.items)
             /\ \A p \in SavedPoint : Count(returned.prices, p) = Written(p)
        ELSE returned.err /\ returned # Ok(<<>>)

\* a file with its later point first
C24_Witness ==
    /\ called = "from_file"
    /\ file.exists /\ Parses
    /\ Len(file.content.items) = 2
    /\ Written(returned.prices[1]) = 1
    /\ file.content.items[2] = serialize(returned.prices[1])
    /\ returned.prices[1].starts_at < returned.prices[2].starts_at

\* ------------------------------------------------- the cycle of the worker
\* C25 as stated: after a fetch that failed, the worker has handed its list
\* to set_new_prices and has called to_file before it pauses.
C25_FailedFetchPublishesAndPersists ==
    dpc = "recover" /\ fetched.kind = "Err" => cand = price_list /\ wrote # "none"

\* C25, amended: in a cycle whose fetch failed the worker hands its list to
\* set_new_prices and writes nothing to prices_file, pauses (the 60 seconds)
\* after set_new_prices has returned and before its sleep, and starts the next
\* cycle from that sleep only; the list in the buffer does not get older and
\* the worker's list stays.
C25_FailedFetchRepublishesThenPauses ==
    [][/\ fetched'.kind = "Err" =>
            /\ file' = file /\ wrote' = "none"
            /\ price_list' = price_list
            /\ dpc = "match" => dpc' = "publish" /\ cand' = price_list
            /\ (dpc = "publish" /\ dpc' # "publish") => dpc' = "recover"
            /\ dpc' = "sleep" => dpc = "recover"
            /\ RecencyOf(price_points') >= RecencyOf(price_points)
       /\ fetched.kind = "Err" /\ fetched'.kind # "Err" =>
            dpc = "sleep" /\ dpc' = "cycle"]_vars

\* the fetch failed: the list was handed over (it is the one the buffer has),
\* nothing was written, the worker pauses
C25_Witness ==
    /\ dpc = "recover" /\ fetched.kind = "Err"
    /\ cand = price_list /\ price_list # <<>>
    /\ wrote = "none" /\ file = FileWith(price_list)
    /\ wpc = "idle" /\ ~ret

C27_SavedIffReplaced ==
    [][/\ (price_list' # price_list /\ dpc \notin {"load", "start_copy"}) =>
            /\ fetched'.kind = "Ok" /\ price_list' = fetched'.prices
            /\ price_list' # <<>>
            /\ RecencyOf(price_list') > RecencyOf(price_list)
            /\ dpc' = "save" /\ wrote' = "none"
       /\ (dpc = "save" /\ dpc' # "save") =>
            /\ wrote' # "none"
            /\ wrote' = "ok" => file' = FileWith(price_list)
       /\ (wrote' # wrote /\ wrote' # "none") =>
            dpc = "save" /\ fetched.kind = "Ok" /\ fetched.prices = price_list
       /\ file' # file => dpc = "save" /\ file' = FileWith(price_list)]_vars

\* the price command replaced its list by a fetched list of two points and
\* saved it
C27_Witness ==
    /\ command = "price" /\ dpc = "printed"
    /\ upd = "ok_true" /\ wrote = "ok"
    /\ fetched.kind = "Ok" /\ Len(price_list) = 2
    /\ file = FileWith(price_list)

\* C28: the worker holds the lock of the buffer only inside clone_prices and
\* set_new_prices: not while try_update decides, fetches or saves, and not
\* while it pauses or sleeps.
C28_NoLockOutsideBuffer ==
    /\ dpc \in {"cycle", "fetch", "save", "match", "recover", "sleep", "dead"} =>
           Setter \notin lock
    /\ Setter \in lock => dpc = "start_copy" \/ (dpc = "publish" /\ wpc = "s_crit")

\* the worker saves, after an earlier cycle installed a list: the lock is free
C28_Witness ==
    /\ dpc = "save" /\ lock = {}
    /\ price_points # <<>> /\ ret

\* a fetch is due: today is not covered, or tomorrow is not and the update
\* time has come
FetchDue == ~TodayCovered \/ (~TomorrowCovered /\ LocalTimeOfDay >= update_time)

\* an update that found no fetch due is on its way
NotDueUpdate == upd = "ok_false" /\ fetched.kind = "none"

\* C29: when no fetch is due at the start of an update, of the worker (its
\* first cycle too) or of the price command, try_update returns Ok(false)
\* without a fetch, and until the update is over the list, the buffer and the
\* file stay as they are.
C29_NoFetchWhenNotDue ==
    [][/\ (dpc = "cycle" /\ ~FetchDue) =>
            /\ dpc' = "match" /\ upd' = "ok_false" /\ fetched'.kind = "none"
            /\ UNCHANGED <<price_list, price_points, file>>
       /\ (NotDueUpdate /\ dpc \in {"match", "sleep"}) =>
            /\ dpc' \in {"sleep", "cycle", "printed"}
            /\ wpc' = wpc /\ fetched'.kind = "none"
            /\ UNCHANGED <<price_list, price_points, file>>]_vars

\* the worker found no fetch due on the list it started with
C29_Witness ==
    /\ command = "daemon" /\ dpc = "sleep"
    /\ NotDueUpdate /\ ~FetchDue
    /\ price_list # <<>> /\ price_points = price_list
    /\ file = FileWith(price_list)
    /\ now < DayLen

\* C30: a fetch that fails makes try_update return the error with the list and
\* the file as they were (the price command then exits); a fetched list that
\* is empty or not newer makes it return Ok(false), list and file as they
\* were; it returns Ok(true) only from a to_file that wrote the list that
\* replaced the old one.
C30_NoInstallNoChange ==
    [][/\ (dpc = "fetch" /\ fetched'.kind = "Err") =>
            /\ upd' = "err" /\ dpc' = "match"
            /\ UNCHANGED <<price_list, file>>
       /\ (dpc = "fetch" /\ fetched'.kind = "Ok"
             /\ RecencyOf(fetched'.prices) <= RecencyOf(price_list)) =>
            /\ upd' = "ok_false" /\ dpc' = "match"
            /\ UNCHANGED <<price_list, file>>
       /\ (upd' = "ok_true" /\ upd # "ok_true") =>
            /\ dpc = "save" /\ dpc' = "match"
            /\ fetched.kind = "Ok" /\ price_list = fetched.prices
            /\ wrote' = "ok" /\ file' = FileWith(price_list)
            /\ price_list' = price_list
       /\ (command = "price" /\ dpc = "match" /\ upd = "err") => dpc' = "exit"]_vars

\* the price command: the fetch failed, list and file are as they were
C30_Witness ==
    /\ command = "price" /\ dpc = "exit"
    /\ fetched.kind = "Err" /\ upd = "err"
    /\ price_list # <<>> /\ file = FileWith(price_list)

\* ------------------------------------------ has_prices_for_date, one call
\* self.has_prices_for_date(&date), the date being the instant in now
CallHasPricesForDate ==
    /\ called = "none"
    /\ called' = "has_prices_for_date"
    /\ returned' = has_prices_for_date(price_list, now)
    /\ UNCHANGED <<mainVars, cacheVars, readerVars, setterVars, daemonVars, fetchVars,
                   price_info, persistVars>>

\* any price list and any date
CoverageInit ==
    /\ price_points = <<>>
    /\ CacheInit
    /\ NoMain
    /\ dpc = "off"
    /\ price_list \in PricingSeries
    /\ upd = "none"
    /\ file = NoFile
    /\ now \in 0..(MaxClock + 1)
    /\ update_time = 0
    /\ tz = FixedZone(0)
    /\ command = "none"
    /\ fetched = NoPrices
    /\ wrote = "none"
    /\ NoFetch
    /\ called = "none"
    /\ returned = <<>>
    /\ NoPersist

CoverageNext == CallHasPricesForDate

CoverageSpec == CoverageInit /\ [][CoverageNext]_vars

\* the start instants of the list's points
Starts == {price_list[i].starts_at : i \in 1..Len(price_list)}

\* C31: has_prices_for_date(d) is true exactly when some point starts strictly
\* before d and some point starts strictly after d; a point that starts at d
\* counts for neither side, so an empty list, a list of one point and a list
\* whose points all start on one side of d (d included) have no coverage
C31_CoverageIsStrictlyInside ==
    called = "has_prices_for_date" =>
        /\ returned = ((\E t \in Starts : t < now) /\ (\E t \in Starts : t > now))
        /\ Len(price_list) <= 1 => returned = FALSE
        /\ (\A t \in Starts : t <= now) => returned = FALSE
        /\ (\A t \in Starts : t >= now) => returned = FALSE

\* coverage is found for a list that also has a point exactly at d
C31_Witness ==
    /\ called = "has_prices_for_date"
    /\ returned = TRUE
    /\ now \in Starts
    /\ Len(price_list) = 3

\* C33: when the worker starts its sleep between two cycles, the list in the
\* shared buffer and the worker's own list have the same latest_price_date,
\* whether the cycle fetched nothing, failed to fetch, failed to save or
\* installed a new list
C33_CacheAndWorkerAgreeAtSleep ==
    dpc = "sleep" => latest_price_date(price_points) = latest_price_date(price_list)

\* a cycle whose save failed ends with a list newer than the one the file
\* holds, in the buffer and in the worker
C33_Witness ==
    /\ dpc = "sleep"
    /\ upd = "err"
    /\ wrote = "err"
    /\ price_list # <<>>
    /\ price_points = price_list
    /\ from_file(file).prices # price_list

\* ------------------------------------------- start_daemon, main.rs:163-250
\* the main thread is the reader of the shared buffer
Main == 1

\* Option::unwrap_or
unwrap_or(o, d) == IF o = None THEN d ELSE o[1]

\* lines 212-220: while !wait_for_new_prices(Utc::now(), 15 min)
MainStartupWait ==
    /\ mpc = "startup"
    /\ pc[Main] = "idle"
    /\ WaitCall(Main, now)

MutLeavesOnTimeout ==
    /\ mpc = "startup"
    /\ pc[Main] = "w_done"
    /\ pc' = [pc EXCEPT ![Main] = "idle"]
    /\ mpc' = "enter"
    /\ UNCHANGED <<cacheVars, setterVars, daemonVars, fetchVars, callVars,
                   after, wake, result, copy, seen_newer, prices>>

\* the call has returned: true leaves the loop, false calls again
MainStartupReturned ==
    /\ mpc = "startup"
    /\ pc[Main] = "w_done"
    /\ pc' = [pc EXCEPT ![Main] = "idle"]
    /\ mpc' = IF result[Main] THEN "enter" ELSE "startup"
    /\ UNCHANGED <<cacheVars, setterVars, daemonVars, fetchVars, callVars,
                   after, wake, result, copy, seen_newer, prices>>

\* lines 227 and 247: shared_prices.clone_prices()
MainClone ==
    /\ mpc \in {"enter", "reclone"}
    /\ pc[Main] = "idle"
    /\ CloneCall(Main)

\* prices = the clone
MainCloned ==
    /\ mpc \in {"enter", "reclone"}
    /\ pc[Main] = "c_done"
    /\ prices' = copy[Main]
    /\ pc' = [pc EXCEPT ![Main] = "idle"]
    /\ mpc' = "loop"
    /\ UNCHANGED <<cacheVars, setterVars, daemonVars, fetchVars, callVars,
                   after, wake, result, copy, seen_newer>>

MutWaitsFromNow == now

\* line 234: latest_price_date = prices.latest_price_date().unwrap_or(Utc::now())
WaitBaseline == unwrap_or(latest_price_date(prices), now)

\* lines 229-244: print the active price, then wait_for_new_prices(
\* latest_price_date, wait_time); the timeout is the reader's WaitTimesOut
MainLoopWait ==
    /\ mpc = "loop"
    /\ pc[Main] = "idle"
    /\ WaitCall(Main, WaitBaseline)

\* lines 244-248: true fetches a new clone, false keeps prices
MainLoopReturned ==
    /\ mpc = "loop"
    /\ pc[Main] = "w_done"
    /\ pc' = [pc EXCEPT ![Main] = "idle"]
    /\ mpc' = IF result[Main] THEN "reclone" ELSE "loop"
    /\ UNCHANGED <<cacheVars, setterVars, daemonVars, fetchVars, callVars,
                   after, wake, result, copy, seen_newer, prices>>

MainStep ==
    \/ MainStartupWait
    \/ MainStartupReturned
    \/ MainClone
    \/ MainCloned
    \/ MainLoopWait
    \/ MainLoopReturned
    \/ WaitLock(Main)
    \/ WaitCheck(Main)
    \/ WaitTimesOut(Main)
    \/ WaitSpurious(Main)
    \/ WaitReacquire(Main)
    \/ WaitRecheck(Main)
    \/ CloneLock(Main)
    \/ CloneCopy(Main)

\* what the provider answers while the main thread reads: an error, no point,
\* or one point at any instant, which gives a list of every recency
MainReplies ==
    {FetchErr, [kind |-> "Ok", today |-> <<>>, tomorrow |-> <<>>]} \cup
    {[kind |-> "Ok", today |-> <<p>>, tomorrow |-> <<>>] : p \in FetchedPoint}

\* the files the daemon can find, lists that are not sorted included
MainFiles ==
    {NoFile, FileOf(EmptyText)} \cup
    {FileWith(s) : s \in SeqsUpTo(FetchedPoint, MaxLen)}

\* lines 186-220: the buffer holds what from_file loaded, the worker is
\* spawned, and the main thread waits first when the loaded list is empty
MainInit ==
    /\ file \in MainFiles
    /\ LET prices_from_file == from_file(file)
       IN  IF prices_from_file.err
           THEN dpc = "exit" /\ mpc = "exit" /\ price_points = <<>>
           ELSE /\ dpc = "start"
                /\ price_points = prices_from_file.prices
                /\ mpc = IF Len(prices_from_file.prices) = 0 THEN "startup" ELSE "enter"
    /\ prices = <<>>
    /\ CacheInit
    /\ price_list = <<>>
    /\ upd = "none"
    /\ now \in 0..(DayLen - 1)
    /\ update_time = 0
    /\ tz = FixedZone(DayLen - 1)
    /\ command = "daemon"
    /\ fetched = NoPrices
    /\ wrote = "none"
    /\ NoFetch
    /\ NoCall

MainNext ==
    \/ MainStep
    \/ WorkerStart
    \/ WorkerStartCopy
    \/ TryUpdateGate
    \/ \E f \in MainReplies, d \in 0..1 : TryUpdateFetch(f, d)
    \/ \E saved \in BOOLEAN : TryUpdateSave(saved)
    \/ WorkerMatch
    \/ SetLock
    \/ SetCrit
    \/ WorkerPublished
    \/ \E d \in 0..1 : WorkerRecover(d)
    \/ \E j \in 0..1 : WorkerSleep(j)

MainSpec == MainInit /\ [][MainNext]_vars

MainChecks == pc[Main] \in {"w_check", "w_recheck"} /\ pc'[Main] # pc[Main]

InMainLoop == mpc \in {"enter", "reclone", "loop"}

C35_ReaderFollowsCache ==
    /\ [](~OptGt(latest_price_date(prices), latest_price_date(price_points)))
    /\ [][(mpc = "loop" /\ MainChecks /\ pc'[Main] = "w_done")
             => result'[Main] =
                  OptGt(latest_price_date(price_points), latest_price_date(prices))]_vars
    /\ [][(mpc = "loop" /\ MainChecks /\ pc'[Main] # "w_done")
             => ~OptGt(latest_price_date(price_points), latest_price_date(prices))]_vars
    /\ [][(mpc = "loop" /\ pc[Main] = "w_done" /\ pc'[Main] = "idle")
             => IF result[Main] THEN mpc' = "reclone"
                ELSE mpc' = "loop" /\ prices' = prices]_vars
    /\ [][(mpc = "reclone" /\ mpc' = "loop")
             => /\ prices' = copy[Main]
                /\ OptGt(latest_price_date(prices'), latest_price_date(prices))]_vars
    /\ [][prices' # prices => (mpc \in {"enter", "reclone"} /\ mpc' = "loop")]_vars
    /\ [](mpc \in {"loop", "reclone"} => prices # <<>>)

\* an install woke the main thread, whose wait returned true: it is about to
\* clone the newer list
C35_Witness ==
    /\ mpc = "reclone"
    /\ pc[Main] = "idle"
    /\ result[Main]
    /\ wake[Main] = "notify"
    /\ prices # <<>>
    /\ OptGt(latest_price_date(price_points), latest_price_date(prices))

\* --------------------- the fetch gate and the base sleep, on the same inputs
\* should_fetch_prices (try_update, pricing.rs:386) and
\* duration_to_new_price_list (shared_buffer.rs:149-151) on one list, one
\* update time and one instant
CallFetchDecision ==
    /\ called = "none"
    /\ called' = "fetch_decision"
    /\ returned' = [should_fetch |-> should_fetch_prices(price_list, update_time, now, tz),
                    wait_time_new_list |->
                        duration_to_new_price_list(price_list, update_time, now, tz)]
    /\ UNCHANGED <<mainVars, cacheVars, readerVars, setterVars, daemonVars, fetchVars,
                   price_info, persistVars>>

AgreeInit == PricingInit

AgreeNext == CallFetchDecision

AgreeSpec == AgreeInit /\ [][AgreeNext]_vars

\* C36: should_fetch_prices and duration_to_new_price_list agree on the same
\* list, update time and instant: a fetch is due exactly when the base sleep
\* is 0
C36_GateAndSleepAgree ==
    called = "fetch_decision" =>
        (returned.should_fetch <=>
            (~returned.wait_time_new_list.panic /\ returned.wait_time_new_list.ms = 0))

====
